---------------------------- MODULE Spec2Model ----------------------------
(***************************************************************************)
(* A model of CodePolice: the fixer (core/fixer.py), the rule engine       *)
(* (core/rule_engine.py), the shipped rules (rules/*.py), the check and    *)
(* fix commands (cli.py), the rate limiter and suggestion service          *)
(* (models/copilot_proxy.py), and the git hook manager                     *)
(* (integrations/git_hook.py).                                             *)
(*                                                                         *)
(* The syntax tree is an external library's.  The model takes the tree     *)
(* interface exactly as the code reads it: a node has a kind, the          *)
(* attributes the code accesses (targets, value, name, lineno,             *)
(* col_offset), and findall visits the nodes in document order.            *)
(***************************************************************************)
EXTENDS Integers, Sequences, FiniteSets, TLC

VARIABLES
    \* ---- CodeFixer (core/fixer.py)
    issues,      \* the list handed to apply_fixes
    raises,      \* indices of the findings whose handler invocation raises
                 \* (the environment's choice: the shipped handlers only
                 \* return self.module)
    module,      \* CodeFixer.module
    changes,     \* CodeFixer.changes: references (indices) to appended issues
    fixOut,      \* what apply_fixes printed
    fixI,        \* position of the for loop of apply_fixes
    fixPc,       \* "loop" | "done" | "raised"
    \* ---- RuleEngine (core/rule_engine.py)
    config,      \* the configuration file at config_path
    enginePc,    \* "new" | "ready" | "failed" (__init__ raised)
    rules,       \* RuleEngine.rules, in the order of the configuration mapping
    engineIssues,\* RuleEngine.issues
    runLog,      \* per apply_rules call: the node, whether the call raised,
                 \* and RuleEngine.issues as the caller finds it afterwards
    \* ---- the rules (rules/*.py)
    tree,        \* the module a rule is applied to: its statements in
                 \* document order, one per line
    ruleOut,     \* the last call of a rule's apply: the rule, whether it
                 \* raised, and the list it returned
    \* ---- CLI (cli.py)
    command,     \* args.command: "check" | "fix"
    apply,       \* args.apply
    only,        \* args.only
    pathExists,  \* whether args.path exists
    files,       \* the files under args.path, in the order they are visited
    disk,        \* the text of each file on disk
    opened,      \* the files opened for writing so far
    cliI,        \* position of the loop over the files
    cliPc,       \* "start" | "files" | "opened" | "output" | "done" | "raised"
    cliIssues,   \* the list `issues` of _run_check
    checked,     \* the files whose findings were obtained
    reported,    \* whether _output_results was called, and the list it got
    exitCode,    \* whether run() returned, and the value it returned
    format,      \* args.format: "text" | "json" | "html"
    output,      \* args.output: None or the report file
    linesep,     \* os.linesep of the platform
    rendered,    \* whether a report was printed or saved, where, and the
                 \* findings as they appear in it
    \* ---- CopilotRateLimiter (models/copilot_proxy.py)
    clock,       \* time.time() at the latest call
    calls,       \* CopilotRateLimiter.calls
    admitted,    \* the times of all calls of allow_request that returned True
    lastAllowed, \* the latest allow_request: "none" | "allowed" | "denied"
    nRequests,   \* the number of allow_request calls so far
    \* ---- CopilotFixer (models/copilot_proxy.py)
    copilotConfig, \* config.enabled, REQUESTS_AVAILABLE, config.auth_token
    cache,       \* the cache file of each snippet
    last,        \* the latest get_suggestion call and what it returned
    nSuggestions, \* the number of get_suggestion calls so far
    \* ---- GitHookManager (integrations/git_hook.py)
    platform,    \* "posix" | "windows": what rename does to an existing target
    hook,        \* the file at HOOK_PATH: None or its content
    backup,      \* the file at BACKUP_PATH: None or its content
    hookAtStart, \* the file at HOOK_PATH before the first call
    hookOps      \* the install and uninstall calls so far, and whether each
                 \* ended in sys.exit(1)

fixerVars == <<issues, raises, module, changes, fixOut, fixI, fixPc>>

engineVars == <<config, enginePc, rules, engineIssues, runLog>>

ruleVars == <<tree, ruleOut>>

cliVars == <<command, apply, only, pathExists, files, disk, opened, cliI, cliPc,
             cliIssues, checked, reported, exitCode, format, output, linesep,
             rendered>>

limiterVars == <<clock, calls, admitted, lastAllowed, nRequests>>

copilotVars == <<copilotConfig, cache, last, nSuggestions>>

hookVars == <<platform, hook, backup, hookAtStart, hookOps>>

vars == <<fixerVars, engineVars, ruleVars, cliVars, limiterVars, copilotVars,
          hookVars>>

-----------------------------------------------------------------------------
(* Bounds *)

MaxIssues == 2
MaxNodes == 3
MaxRules == 2
MaxRuns == 2
MaxStmts == 2
MaxFiles == 2
MaxRequests == 4       \* allow_request calls of one limiter
MaxSuggestions == 3    \* get_suggestion calls of one CopilotFixer
RateLimit == 2         \* the configured CopilotConfig.rate_limit
MaxHookOps == 5        \* install and uninstall calls in one repository

-----------------------------------------------------------------------------
(* Helpers *)

Range(s) == {s[i] : i \in 1..Len(s)}

SeqsUpTo(S, n) == UNION {[1..k -> S] : k \in 0..n}

None == "None"

-----------------------------------------------------------------------------
(* RuleEngine *)

\* A key the configuration mapping does not have.
Absent == "<absent>"

\* rule_config['node_type']: absent, the name of a node class, or a name
\* that is no attribute of the tree library.
NodeTypeNames == {"Name", "SimpleString"}
NodeTypeValues == NodeTypeNames \cup {Absent, "NoSuchNode"}

\* One entry of the 'rules' mapping: node_type, message and
\* options.bad_pattern (level and fix are read with defaults).
RuleConfig == [node_type : NodeTypeValues,
               message : {Absent, "message"},
               bad_pattern : {Absent, "bad"}]

RuleName(k) == <<"rule", k>>

\* The nodes handed to apply_rules: a Name or a SimpleString (value is a
\* str, which holds the bad pattern or not) or an Assign (value is a node).
EngineNode ==
    [kind : NodeTypeNames, value : {"bad", "clean"}, lineno : {1}]
      \cup {[kind |-> "Assign", value |-> "<node>", lineno |-> 1]}

ValueIsStr(node) == node.value \in {"bad", "clean"}

\* _check_rule(node, rule_name, rule_config) on self.issues = iss:
\* the new self.issues, and whether the call raised.
CheckRule(node, rule_name, rule_config, iss) ==
    IF ~ValueIsStr(node) THEN [issues |-> iss, raised |-> FALSE]
    ELSE IF rule_config.bad_pattern = Absent THEN [issues |-> iss, raised |-> FALSE]
    ELSE IF rule_config.bad_pattern # node.value THEN [issues |-> iss, raised |-> FALSE]
    ELSE IF rule_config.message = Absent
         THEN [issues |-> iss, raised |-> TRUE]          \* KeyError: 'message'
         ELSE [issues |-> Append(iss, [rule |-> rule_name,
                                       message |-> rule_config.message,
                                       line |-> node.lineno]),
               raised |-> FALSE]

\* The body of the for loop of apply_rules for one (rule_name, rule_config).
\* `cst` is read as the tree library's module, whose attributes are the node
\* classes (rule_engine.py itself does not import it).
ApplyOneRule(node, rule_name, rule_config, iss) ==
    IF rule_config.node_type = Absent THEN [issues |-> iss, raised |-> FALSE]
    ELSE IF rule_config.node_type \notin NodeTypeNames
         THEN [issues |-> iss, raised |-> TRUE]          \* getattr raises
         ELSE IF node.kind = rule_config.node_type
              THEN CheckRule(node, rule_name, rule_config, iss)
              ELSE [issues |-> iss, raised |-> FALSE]

\* apply_rules from the k-th entry of self.rules on: an exception leaves the
\* loop and the function.
RECURSIVE ApplyRulesFrom(_, _, _, _)
ApplyRulesFrom(rs, k, node, iss) ==
    IF k > Len(rs) THEN [issues |-> iss, raised |-> FALSE]
    ELSE LET r == ApplyOneRule(node, RuleName(k), rs[k], iss) IN
         IF r.raised THEN r ELSE ApplyRulesFrom(rs, k + 1, node, r.issues)

\* The configuration file: missing, empty (yaml.safe_load gives None), a
\* mapping without the 'rules' key, or a mapping with it.
ConfigFile ==
    {[kind |-> k, rules |-> <<>>] : k \in {"missing", "empty", "no rules"}}
      \cup {[kind |-> "rules", rules |-> rs] : rs \in SeqsUpTo(RuleConfig, MaxRules)}

\* _load_rules(): open() raises for a missing file and None has no .get;
\* both are re-raised as RuntimeError.  A mapping without 'rules' gives {}.
LoadRules(cfg) ==
    IF cfg.kind \in {"missing", "empty"} THEN [raised |-> TRUE, rules |-> <<>>]
    ELSE [raised |-> FALSE, rules |-> cfg.rules]

EngineInit ==
    /\ config \in ConfigFile
    /\ enginePc = "new"
    /\ rules = <<>>
    /\ engineIssues = <<>>
    /\ runLog = <<>>

EngineIdle ==
    /\ config = [kind |-> "no rules", rules |-> <<>>]
    /\ enginePc = "new"
    /\ rules = <<>>
    /\ engineIssues = <<>>
    /\ runLog = <<>>

\* RuleEngine.__init__: the exception of _load_rules leaves the constructor.
Construct ==
    /\ enginePc = "new"
    /\ LET r == LoadRules(config) IN
         /\ enginePc' = IF r.raised THEN "failed" ELSE "ready"
         /\ rules' = r.rules
    /\ UNCHANGED <<config, engineIssues, runLog>>
    /\ UNCHANGED <<fixerVars, ruleVars, cliVars, limiterVars, copilotVars, hookVars>>

\* RuleEngine.apply_rules(node)
ApplyRules(node) ==
    /\ enginePc = "ready"
    /\ Len(runLog) < MaxRuns
    /\ LET r == ApplyRulesFrom(rules, 1, node, engineIssues) IN
         /\ engineIssues' = r.issues
         /\ runLog' = Append(runLog, [node |-> node, raised |-> r.raised,
                                      before |-> Len(engineIssues),
                                      issues |-> r.issues])
    /\ UNCHANGED <<config, enginePc, rules>>
    /\ UNCHANGED <<fixerVars, ruleVars, cliVars, limiterVars, copilotVars, hookVars>>

EngineNext == Construct \/ \E node \in EngineNode : ApplyRules(node)

-----------------------------------------------------------------------------
(* The rules: NamingConventionRule, UnusedImportRule, HardcodedSecretRule *)

LowerLetters == <<"a", "b", "c", "d", "e", "f", "g", "h", "i", "j", "k", "l", "m",
                  "n", "o", "p", "q", "r", "s", "t", "u", "v", "w", "x", "y", "z">>
UpperLetters == <<"A", "B", "C", "D", "E", "F", "G", "H", "I", "J", "K", "L", "M",
                  "N", "O", "P", "Q", "R", "S", "T", "U", "V", "W", "X", "Y", "Z">>
Digits == {"0", "1", "2", "3", "4", "5", "6", "7", "8", "9"}

\* str.lower(), on a string given as the sequence of its characters
LowerChar(c) ==
    IF c \in Range(UpperLetters)
    THEN LowerLetters[CHOOSE i \in 1..Len(UpperLetters) : UpperLetters[i] = c]
    ELSE c

Lower(str) == [i \in 1..Len(str) |-> LowerChar(str[i])]

\* `keyword in str`
Contains(keyword, str) ==
    \E i \in 0..(Len(str) - Len(keyword)) :
        \A j \in 1..Len(keyword) : str[i + j] = keyword[j]

\* NamingConventionRule.snake_case_pattern: ^[a-z_][a-z0-9_]*$
IsSnakeCase(name) ==
    /\ Len(name) >= 1
    /\ name[1] \in Range(LowerLetters) \cup {"_"}
    /\ \A i \in 2..Len(name) : name[i] \in Range(LowerLetters) \cup Digits \cup {"_"}

\* HardcodedSecretRule.secrets_keywords
SecretsKeywords == {<<"p", "a", "s", "s", "w", "o", "r", "d">>,
                    <<"s", "e", "c", "r", "e", "t">>,
                    <<"t", "o", "k", "e", "n">>,
                    <<"k", "e", "y">>}

\* The identifiers of the modelled modules: key, Key, x, myVar.
Identifiers == {<<"k", "e", "y">>, <<"K", "e", "y">>, <<"x">>, <<"m", "y", "V", "a", "r">>}

\* A statement: an assignment `target = value` whose first target is a name,
\* an attribute (obj.name) or a tuple; a function definition; an import
\* `import name`, `import os as name` or `import name.path`; or an
\* expression statement that mentions a name.
Statement ==
    [kind : {"Assign"}, target_kind : {"Name", "Attribute", "Tuple"},
     name : Identifiers, value_kind : {"SimpleString", "Integer"}]
      \cup [kind : {"FunctionDef"}, target_kind : {"-"}, name : Identifiers,
            value_kind : {"-"}]
      \cup [kind : {"Import"}, target_kind : {"Name", "AsName", "Dotted"},
            name : Identifiers, value_kind : {"-"}]
      \cup [kind : {"Expr"}, target_kind : {"-"}, name : Identifiers,
            value_kind : {"-"}]

\* getattr(n.targets[0].target, 'value', ''): the identifier of a Name, the
\* object expression (a node) of an Attribute, nothing for a Tuple.
TargetValue(stmt) ==
    CASE stmt.target_kind = "Name"      -> [is_str |-> TRUE, str |-> stmt.name]
      [] stmt.target_kind = "Attribute" -> [is_str |-> FALSE, str |-> <<>>]
      [] OTHER                          -> [is_str |-> TRUE, str |-> <<>>]

\* A matcher on one candidate node: "match", "no match", or "raise" when the
\* MatchIfTrue guard raises.
\*   secret_matcher = m.Assign(value=m.SimpleString()) & m.MatchIfTrue(guard)
SecretMatcher(stmt) ==
    IF ~(stmt.kind = "Assign" /\ stmt.value_kind = "SimpleString") THEN "no match"
    ELSE LET v == TargetValue(stmt) IN
         IF ~v.is_str THEN "raise"                       \* node has no .lower()
         ELSE IF \E keyword \in SecretsKeywords : Contains(keyword, Lower(v.str))
              THEN "match" ELSE "no match"

\*   var_matcher = m.Assign(targets=[m.AssignTarget(target=m.Name())]) & guard
VarMatcher(stmt) ==
    IF stmt.kind = "Assign" /\ stmt.target_kind = "Name" /\ ~IsSnakeCase(stmt.name)
    THEN "match" ELSE "no match"

\*   func_matcher = m.FunctionDef(name=m.Name()) & guard
FuncMatcher(stmt) ==
    IF stmt.kind = "FunctionDef" /\ ~IsSnakeCase(stmt.name)
    THEN "match" ELSE "no match"

Matches(matcher, stmt) ==
    CASE matcher = "secret_matcher" -> SecretMatcher(stmt)
      [] matcher = "var_matcher"    -> VarMatcher(stmt)
      [] matcher = "func_matcher"   -> FuncMatcher(stmt)

\* m.findall(node, matcher) from the k-th statement on: the matching
\* statements in document order; a guard that raises ends the traversal and
\* the exception leaves findall.
RECURSIVE FindAllFrom(_, _, _, _)
FindAllFrom(t, k, matcher, found) ==
    IF k > Len(t) THEN [raised |-> FALSE, matches |-> found]
    ELSE LET r == Matches(matcher, t[k]) IN
         IF r = "raise" THEN [raised |-> TRUE, matches |-> <<>>]
         ELSE FindAllFrom(t, k + 1, matcher,
                          IF r = "match" THEN Append(found, k) ELSE found)

FindAll(t, matcher) == FindAllFrom(t, 1, matcher, <<>>)

NewIssue(rule, severity, fix_type, t, k) ==
    [rule |-> rule, name |-> t[k].name, line |-> k, column |-> 0,
     severity |-> severity, fix_type |-> fix_type, node |-> k]

IssuesFor(rule, severity, fix_type, t, matches) ==
    [i \in 1..Len(matches) |-> NewIssue(rule, severity, fix_type, t, matches[i])]

\* HardcodedSecretRule.apply(node)
HardcodedSecretApply(t) ==
    LET found == FindAll(t, "secret_matcher") IN
    IF found.raised THEN [raised |-> TRUE, issues |-> <<>>]
    ELSE [raised |-> FALSE,
          issues |-> IssuesFor("hardcoded_secret", "error", "replace", t, found.matches)]

\* NamingConventionRule.apply(node): the variables, then the functions
NamingConventionApply(t) ==
    LET vars_found == FindAll(t, "var_matcher")
        funcs_found == FindAll(t, "func_matcher")
    IN [raised |-> FALSE,
        issues |-> IssuesFor("naming_convention", "warning", "rename", t,
                             vars_found.matches)
                   \o IssuesFor("naming_convention", "warning", "rename", t,
                                funcs_found.matches)]

\* The values of the Name nodes inside a statement; the name of an import
\* alias and the name after `as` are Name nodes too.
NamesIn(stmt) == {stmt.name}

\* `name.asname.name.value if name.asname else name.name.value`: the
\* identifier, or for `import name.path` the Name node that is the .value
\* of the dotted name (a node, equal to no string).
ImportAlias(t, k) ==
    IF t[k].target_kind = "Dotted"
    THEN [is_str |-> FALSE, str |-> <<>>, node |-> k]
    ELSE [is_str |-> TRUE, str |-> t[k].name, node |-> 0]

\* imports[alias] = imp, from the k-th statement on: a dict in insertion
\* order, a key set again keeps its place and takes the new statement.
RECURSIVE ImportsFrom(_, _, _)
ImportsFrom(t, k, imports) ==
    IF k > Len(t) THEN imports
    ELSE IF t[k].kind # "Import" THEN ImportsFrom(t, k + 1, imports)
    ELSE LET alias == ImportAlias(t, k)
             at == {i \in 1..Len(imports) : imports[i].alias = alias}
         IN  ImportsFrom(t, k + 1,
                 IF at = {} THEN Append(imports, [alias |-> alias, imp |-> k])
                 ELSE [i \in 1..Len(imports) |->
                          IF i \in at THEN [alias |-> alias, imp |-> k]
                          ELSE imports[i]])

\* used_names: the value of every Name node m.findall(node, m.Name()) finds,
\* those of the import statements included.
UsedNames(t) == UNION {NamesIn(t[k]) : k \in 1..Len(t)}

\* `alias not in used_names`
NotUsed(alias, used_names) == ~(alias.is_str /\ alias.str \in used_names)

\* UnusedImportRule.apply(node)
UnusedImportApply(t) ==
    LET imports == ImportsFrom(t, 1, <<>>)
        unused == SelectSeq(imports, LAMBDA e : NotUsed(e.alias, UsedNames(t)))
    IN  [raised |-> FALSE,
         issues |-> IssuesFor("unused_import", "warning", "remove", t,
                              [i \in 1..Len(unused) |-> unused[i].imp])]

NotRun == [rule |-> "-", raised |-> FALSE, issues |-> <<>>]

RulesInit ==
    /\ tree \in SeqsUpTo(Statement, MaxStmts)
    /\ ruleOut = NotRun

RulesIdle ==
    /\ tree = <<>>
    /\ ruleOut = NotRun

RunHardcodedSecret ==
    /\ LET r == HardcodedSecretApply(tree) IN
         ruleOut' = [rule |-> "hardcoded_secret", raised |-> r.raised,
                     issues |-> r.issues]
    /\ UNCHANGED <<tree, fixerVars, engineVars, cliVars, limiterVars, copilotVars, hookVars>>

RunNamingConvention ==
    /\ LET r == NamingConventionApply(tree) IN
         ruleOut' = [rule |-> "naming_convention", raised |-> r.raised,
                     issues |-> r.issues]
    /\ UNCHANGED <<tree, fixerVars, engineVars, cliVars, limiterVars, copilotVars, hookVars>>

RunUnusedImport ==
    /\ LET r == UnusedImportApply(tree) IN
         ruleOut' = [rule |-> "unused_import", raised |-> r.raised,
                     issues |-> r.issues]
    /\ UNCHANGED <<tree, fixerVars, engineVars, cliVars, limiterVars, copilotVars, hookVars>>

RulesNext == RunHardcodedSecret \/ RunNamingConvention \/ RunUnusedImport

-----------------------------------------------------------------------------
(* CodeFixer *)

\* A dict without the 'fix_type' key.
NoFix == "<absent>"

\* The fix_type values the shipped rules emit, and the ones that name a handler.
FixTypes == {"remove", "replace", "rename", "refactor",
             "remove_node", "replace_node", "insert_code"}

\* The 'fix_type' values the shipped rules put into their findings.
ShippedFixTypes == {"remove", "replace", "rename", "refactor"}

\* The _fix_* attributes of CodeFixer.
FixMethods == {"_fix_remove_node", "_fix_replace_node", "_fix_insert_code"}

\* getattr(self, f"_fix_{issue['fix_type']}", None)
GetFixMethod(fix_type) ==
    IF ("_fix_" \o fix_type) \in FixMethods THEN "_fix_" \o fix_type ELSE None

\* Node handles 1..MaxNodes; node n's parent is n \div 2, node 1 is the
\* outermost statement.  The span of a node contains its descendants' spans.
Nodes == 1..MaxNodes

RECURSIVE IsAncestorOrSelf(_, _)
IsAncestorOrSelf(a, b) ==
    IF a = b THEN TRUE
    ELSE IF b <= 1 THEN FALSE
    ELSE IsAncestorOrSelf(a, b \div 2)

Overlap(a, b) == IsAncestorOrSelf(a, b) \/ IsAncestorOrSelf(b, a)

\* The rule that emits a given directive kind.
RuleFor(fix_type) ==
    CASE fix_type = "remove"   -> "unused_import"
      [] fix_type = "replace"  -> "hardcoded_secret"
      [] fix_type = "rename"   -> "naming_convention"
      [] fix_type = "refactor" -> "repeated_calculation"
      [] OTHER                 -> "custom_rule"

Issue == {[rule |-> RuleFor(ft), fix_type |-> ft, node |-> n] :
            ft \in FixTypes \cup {NoFix}, n \in Nodes}

HasFixType(issue) == issue.fix_type # NoFix

\* _fix_remove_node / _fix_replace_node / _fix_insert_code: each returns
\* self.module.
FixMethodResult(method, mod, issue) == mod

\* A faulty variant of FixOne: the failing finding is recorded as applied.
FixOneAppendsOnFailure(st, issue, idx, raised) ==
    IF ~HasFixType(issue) THEN st
    ELSE IF GetFixMethod(issue.fix_type) = None THEN st
    ELSE [st EXCEPT !.changes = Append(@, idx)]

\* A faulty variant of FixOne: a finding without a fix_type is recorded as
\* applied.
FixOneNoGuard(st, issue, idx, raised) ==
    [st EXCEPT !.changes = Append(@, idx)]

\* The body of the for loop of apply_fixes, for the idx-th issue.
FixOne(st, issue, idx, raised) ==
    IF ~HasFixType(issue) THEN st
    ELSE LET fix_method == GetFixMethod(issue.fix_type) IN
         IF fix_method = None THEN st
         ELSE IF raised
              THEN [st EXCEPT !.out = Append(@, [kind |-> "Failed to fix",
                                                 rule |-> issue.rule])]
              ELSE [st EXCEPT !.module = FixMethodResult(fix_method, st.module, issue),
                              !.changes = Append(@, idx)]

FixerInit ==
    /\ issues \in SeqsUpTo(Issue, MaxIssues)
    /\ raises \in SUBSET {i \in 1..Len(issues) :
                            /\ HasFixType(issues[i])
                            /\ GetFixMethod(issues[i].fix_type) # None}
    /\ module = Nodes
    /\ changes = <<>>
    /\ fixOut = <<>>
    /\ fixI = 1
    /\ fixPc = "loop"

FixerIdle ==
    /\ issues = <<>>
    /\ raises = {}
    /\ module = Nodes
    /\ changes = <<>>
    /\ fixOut = <<>>
    /\ fixI = 1
    /\ fixPc = "done"

\* One iteration of `for issue in issues`.
ApplyFixesIterate ==
    /\ fixPc = "loop"
    /\ fixI <= Len(issues)
    /\ LET st == FixOne([module |-> module, changes |-> changes, out |-> fixOut],
                        issues[fixI], fixI, fixI \in raises)
       IN /\ module' = st.module
          /\ changes' = st.changes
          /\ fixOut' = st.out
    /\ fixI' = fixI + 1
    /\ UNCHANGED <<issues, raises, fixPc>>
    /\ UNCHANGED <<engineVars, ruleVars, cliVars, limiterVars, copilotVars, hookVars>>

\* `return self.module`
ApplyFixesReturn ==
    /\ fixPc = "loop"
    /\ fixI > Len(issues)
    /\ fixPc' = "done"
    /\ UNCHANGED <<issues, raises, module, changes, fixOut, fixI>>
    /\ UNCHANGED <<engineVars, ruleVars, cliVars, limiterVars, copilotVars, hookVars>>

FixerNext == ApplyFixesIterate \/ ApplyFixesReturn

-----------------------------------------------------------------------------
(* CLI: the check and fix commands *)

\* The lines of a source file.
SourceLines == <<"import os", "password = 'letmein123'">>

\* The line endings a file on disk can have.
Newlines == {"\n", "\r\n"}

\* A text is the sequence of its lines, each followed by its line ending.
RECURSIVE WithNewlines(_, _)
WithNewlines(lines, newline) ==
    IF lines = <<>> THEN <<>>
    ELSE <<Head(lines), newline>> \o WithNewlines(Tail(lines), newline)

\* The bytes of a source file before the run.
SourceBytes(file) == WithNewlines(SourceLines, file.newline)

\* open(self.file_path, 'r', encoding='utf-8') and f.read(): text mode with
\* the default newline=None turns every line ending into "\n".
ReadFile(bytes) ==
    [k \in 1..Len(bytes) |-> IF bytes[k] \in Newlines THEN "\n" ELSE bytes[k]]

\* open(py_file, 'w') and f.write(text): text mode with the default
\* newline=None writes every "\n" as os.linesep, whatever line ending the
\* file had.
WriteFile(text, sep) ==
    [k \in 1..Len(text) |-> IF text[k] = "\n" THEN sep ELSE text[k]]

\* What an interrupted write can leave of a text: a proper prefix.
ProperPrefixes(text) == {SubSeq(text, 1, n) : n \in 0..(Len(text) - 1)}

\* CodeParser(path).get_ast(), and the module's .code
Parse(text) == [body |-> text]
Code(mod) == mod.body

\* The findings the rule engine has for a file.
FileFindings ==
    {<<>>,
     <<[rule |-> "unused_import", fix_type |-> "remove", node |-> 1]>>,
     <<[rule |-> "unused_import", fix_type |-> "remove", node |-> 1],
       [rule |-> "hardcoded_secret", fix_type |-> "replace", node |-> 2]>>,
     <<[rule |-> "custom_rule", fix_type |-> "replace_node", node |-> 2]>>}

\* A file: whether CodeParser reads and parses it, its line ending and its
\* findings.
Unparsable == [parses |-> FALSE, newline |-> "\n", findings |-> <<>>]

File == {[parses |-> TRUE, newline |-> nl, findings |-> fs] :
            nl \in Newlines, fs \in FileFindings}
          \cup {Unparsable}

\* self.rule_engine.run_rules(module)
RunRules(file) == file.findings

\* [i for i in issues if i['rule'] == self.args.only], when --only is given
FilterOnly(iss, rule) ==
    IF rule = None THEN iss ELSE SelectSeq(iss, LAMBDA i : i.rule = rule)

\* CodeFixer(module).apply_fixes(issues), from the k-th issue on
RECURSIVE ApplyFixesFrom(_, _, _)
ApplyFixesFrom(st, iss, k) ==
    IF k > Len(iss) THEN st
    ELSE ApplyFixesFrom(FixOne(st, iss[k], k, FALSE), iss, k + 1)

ApplyFixes(mod, iss) ==
    ApplyFixesFrom([module |-> mod, changes |-> <<>>, out |-> <<>>], iss, 1).module

\* The text the fix command has for a file after the Fixer pass.
FixedText(file, rule) ==
    Code(ApplyFixes(Parse(ReadFile(SourceBytes(file))), FilterOnly(RunRules(file), rule)))

\* What `f.write(fixed_module.code)` puts on the disk.
FixedBytes(file, rule, sep) == WriteFile(FixedText(file, rule), sep)

\* A faulty variant of Writes: the fix command writes without --apply.
WritesAlways(flag) == TRUE

\* `if self.args.apply:`
Writes(flag) == flag

\* choices=['text', 'json', 'html'] of --format
Formats == {"text", "json", "html"}

\* issue.pop('node', None)
PopNode(issue) == [key \in DOMAIN issue \ {"node"} |-> issue[key]]

\* Whether a finding still carries the node a rule put into it.
HasNode(issue) == "node" \in DOMAIN issue

\* _generate_text_report: every finding loses its 'node' key before its
\* lines are formatted; the findings are the caller's dicts, changed in place.
TextReport(iss) ==
    LET popped == [k \in 1..Len(iss) |-> PopNode(iss[k])]
    IN  [raised |-> FALSE, shown |-> popped, issues |-> popped]

\* json.dumps(issues, indent=2): a node is not JSON serializable, the call
\* raises TypeError for a finding that carries one.
JsonReport(iss) ==
    IF \E k \in 1..Len(iss) : HasNode(iss[k])
    THEN [raised |-> TRUE, shown |-> <<>>, issues |-> iss]
    ELSE [raised |-> FALSE, shown |-> iss, issues |-> iss]

\* _generate_html_report: the page template holds the braces of its style
\* sheet (`body { font-family: ... }`), so template.format raises KeyError
\* whatever the findings are.
HtmlReport(iss) == [raised |-> TRUE, shown |-> <<>>, issues |-> iss]

\* The first half of _output_results: the report in the format asked for.
Render(fmt, iss) ==
    IF fmt = "json" THEN JsonReport(iss)
    ELSE IF fmt = "html" THEN HtmlReport(iss)
    ELSE TextReport(iss)

\* The findings as the renderer of a format formats or serializes them:
\* _generate_text_report pops 'node' first, json.dumps and
\* issue_template.format(**issue) get the finding as the rule made it.
RendererInput(fmt, iss) ==
    IF fmt = "text" THEN [k \in 1..Len(iss) |-> PopNode(iss[k])] ELSE iss

\* The status the process ends with: sys.exit(cli.run()), and 1 when an
\* exception leaves run().
ExitStatus == IF cliPc = "raised" THEN 1 ELSE exitCode.code

\* No report yet.
NotRendered == [done |-> FALSE, to |-> None, issues |-> <<>>]

RECURSIVE Concat(_)
Concat(ss) == IF ss = <<>> THEN <<>> ELSE Head(ss) \o Concat(Tail(ss))

CliInit ==
    /\ command \in {"check", "fix"}
    /\ apply \in (IF command = "fix" THEN BOOLEAN ELSE {FALSE})
    /\ only \in (IF command = "fix" THEN {None, "unused_import"} ELSE {None})
    /\ pathExists \in BOOLEAN
    /\ files \in (IF pathExists THEN SeqsUpTo(File, MaxFiles)
                  ELSE IF command = "fix" THEN {<<>>}
                  ELSE {<<Unparsable>>})
    /\ disk = [f \in 1..Len(files) |-> SourceBytes(files[f])]
    /\ opened = {}
    /\ cliI = 1
    /\ cliPc = "files"
    /\ cliIssues = <<>>
    /\ checked = {}
    /\ reported = [called |-> FALSE, issues |-> <<>>]
    /\ exitCode = [returned |-> FALSE, code |-> 0]
    /\ format \in (IF command = "check" THEN Formats ELSE {"text"})
    /\ output \in (IF command = "check" THEN {None, "report"} ELSE {None})
    /\ linesep \in (IF command = "fix" THEN Newlines ELSE {"\n"})
    /\ rendered = NotRendered

CliIdle ==
    /\ command = "check"
    /\ apply = FALSE
    /\ only = None
    /\ pathExists = TRUE
    /\ files = <<>>
    /\ disk = <<>>
    /\ opened = {}
    /\ cliI = 1
    /\ cliPc = "done"
    /\ cliIssues = <<>>
    /\ checked = {}
    /\ reported = [called |-> FALSE, issues |-> <<>>]
    /\ exitCode = [returned |-> FALSE, code |-> 0]
    /\ format = "text"
    /\ output = None
    /\ linesep = "\n"
    /\ rendered = NotRendered

\* _run_check, one file: CodeParser raises RuntimeError for a file it cannot
\* read or parse, and nothing catches it.
CheckFile ==
    /\ command = "check" /\ cliPc = "files" /\ cliI <= Len(files)
    /\ IF files[cliI].parses
       THEN /\ cliIssues' = cliIssues \o RunRules(files[cliI])
            /\ checked' = checked \cup {cliI}
            /\ cliI' = cliI + 1
            /\ UNCHANGED cliPc
       ELSE /\ cliPc' = "raised"
            /\ UNCHANGED <<cliIssues, checked, cliI>>
    /\ UNCHANGED <<command, apply, only, pathExists, files, disk, opened, reported, exitCode>>
    /\ UNCHANGED <<format, output, linesep, rendered>>
    /\ UNCHANGED <<fixerVars, engineVars, ruleVars, limiterVars, copilotVars, hookVars>>

\* _run_check after the loop.  The suggestion step changes nothing: CodeParser
\* has no get_code_snippet.  Then _output_results(issues), whose exception
\* nothing catches, and `return 1 if issues else 0`.
CheckOutput ==
    /\ command = "check" /\ cliPc = "files" /\ cliI > Len(files)
    /\ reported' = [called |-> TRUE, issues |-> cliIssues]
    /\ LET r == Render(format, cliIssues) IN
       IF r.raised
       THEN /\ cliPc' = "raised"
            /\ UNCHANGED <<exitCode, rendered, cliIssues>>
       ELSE /\ rendered' = [done |-> TRUE,
                            to |-> IF output = None THEN "stdout" ELSE output,
                            issues |-> r.shown]
            /\ cliIssues' = r.issues
            /\ exitCode' = [returned |-> TRUE,
                            code |-> IF r.issues # <<>> THEN 1 ELSE 0]
            /\ cliPc' = "done"
    /\ UNCHANGED <<command, apply, only, pathExists, files, disk, opened, cliI, checked>>
    /\ UNCHANGED <<format, output, linesep>>
    /\ UNCHANGED <<fixerVars, engineVars, ruleVars, limiterVars, copilotVars, hookVars>>

\* _run_fix: `if not path.exists(): ... return 1`
FixPathNotFound ==
    /\ command = "fix" /\ cliPc = "files" /\ ~pathExists
    /\ exitCode' = [returned |-> TRUE, code |-> 1]
    /\ cliPc' = "done"
    /\ UNCHANGED <<command, apply, only, pathExists, files, disk, opened, cliI,
                   cliIssues, checked, reported>>
    /\ UNCHANGED <<format, output, linesep, rendered>>
    /\ UNCHANGED <<fixerVars, engineVars, ruleVars, limiterVars, copilotVars, hookVars>>

\* _run_fix, one file, up to `open(py_file, 'w')`, which truncates the file.
FixFile ==
    /\ command = "fix" /\ cliPc = "files" /\ pathExists /\ cliI <= Len(files)
    /\ IF ~files[cliI].parses
       THEN /\ cliPc' = "raised"
            /\ UNCHANGED <<cliI, checked, disk, opened>>
       ELSE /\ checked' = checked \cup {cliI}
            /\ IF RunRules(files[cliI]) # <<>> /\ Writes(apply)
               THEN /\ disk' = [disk EXCEPT ![cliI] = <<>>]
                    /\ opened' = opened \cup {cliI}
                    /\ cliPc' = "opened"
                    /\ UNCHANGED cliI
               ELSE /\ cliI' = cliI + 1
                    /\ UNCHANGED <<cliPc, disk, opened>>
    /\ UNCHANGED <<command, apply, only, pathExists, files, cliIssues, reported, exitCode>>
    /\ UNCHANGED <<format, output, linesep, rendered>>
    /\ UNCHANGED <<fixerVars, engineVars, ruleVars, limiterVars, copilotVars, hookVars>>

\* `f.write(fixed_module.code)` and the end of the with block
FixWrite ==
    /\ command = "fix" /\ cliPc = "opened"
    /\ disk' = [disk EXCEPT ![cliI] = FixedBytes(files[cliI], only, linesep)]
    /\ cliI' = cliI + 1
    /\ cliPc' = "files"
    /\ UNCHANGED <<command, apply, only, pathExists, files, opened, cliIssues, checked,
                   reported, exitCode>>
    /\ UNCHANGED <<format, output, linesep, rendered>>
    /\ UNCHANGED <<fixerVars, engineVars, ruleVars, limiterVars, copilotVars, hookVars>>

\* The write raises OSError (disk full, quota, I/O error): what reached the
\* disk is a proper prefix of the text, and the exception leaves run().
FixWriteFails ==
    /\ command = "fix" /\ cliPc = "opened"
    /\ \E left \in ProperPrefixes(FixedBytes(files[cliI], only, linesep)) :
          disk' = [disk EXCEPT ![cliI] = left]
    /\ cliPc' = "raised"
    /\ UNCHANGED <<command, apply, only, pathExists, files, opened, cliI, cliIssues, checked,
                   reported, exitCode>>
    /\ UNCHANGED <<format, output, linesep, rendered>>
    /\ UNCHANGED <<fixerVars, engineVars, ruleVars, limiterVars, copilotVars, hookVars>>

\* _run_fix after the loop: return 0
FixReturn ==
    /\ command = "fix" /\ cliPc = "files" /\ pathExists /\ cliI > Len(files)
    /\ exitCode' = [returned |-> TRUE, code |-> 0]
    /\ cliPc' = "done"
    /\ UNCHANGED <<command, apply, only, pathExists, files, disk, opened, cliI, cliIssues,
                   checked, reported>>
    /\ UNCHANGED <<format, output, linesep, rendered>>
    /\ UNCHANGED <<fixerVars, engineVars, ruleVars, limiterVars, copilotVars, hookVars>>

CliNext ==
    \/ CheckFile
    \/ CheckOutput
    \/ FixPathNotFound
    \/ FixFile
    \/ FixWrite
    \/ FixWriteFails
    \/ FixReturn

-----------------------------------------------------------------------------
(* CopilotRateLimiter and CopilotFixer *)

\* CopilotRateLimiter.__init__: period = 60 (seconds)
Period == 60

\* _load_from_cache: a cached response is valid for 24 hours
CacheTtl == 86400

\* How far time.time() advances between two calls.
Deltas == {0, 1, Period - 1, Period, CacheTtl - 1, CacheTtl}

\* A faulty variant of AllowRequest: the limit test is `>` instead of `>=`.
AllowRequestOffByOne(cs, now) ==
    LET kept == SelectSeq(cs, LAMBDA t : t > now - Period) IN
    IF Len(kept) > RateLimit
    THEN [allowed |-> FALSE, calls |-> kept]
    ELSE [allowed |-> TRUE, calls |-> Append(kept, now)]

\* CopilotRateLimiter.allow_request() at time now, on self.calls = cs
AllowRequest(cs, now) ==
    LET kept == SelectSeq(cs, LAMBDA t : t > now - Period) IN
    IF Len(kept) >= RateLimit
    THEN [allowed |-> FALSE, calls |-> kept]
    ELSE [allowed |-> TRUE, calls |-> Append(kept, now)]

LimiterInit ==
    /\ clock = 0
    /\ calls = <<>>
    /\ admitted = <<>>
    /\ lastAllowed = "none"
    /\ nRequests = 0

\* The limiter's part of a step in which allow_request is called at now.
LimiterStep(now) ==
    LET r == AllowRequest(calls, now) IN
    /\ calls' = r.calls
    /\ admitted' = IF r.allowed THEN Append(admitted, now) ELSE admitted
    /\ lastAllowed' = IF r.allowed THEN "allowed" ELSE "denied"
    /\ nRequests' = nRequests + 1

\* One call of allow_request, d seconds after the previous one.
CallAllowRequest ==
    /\ nRequests < MaxRequests
    /\ \E d \in Deltas :
          /\ clock' = clock + d
          /\ LimiterStep(clock + d)
    /\ UNCHANGED <<fixerVars, engineVars, ruleVars, cliVars, copilotVars, hookVars>>

LimiterNext == CallAllowRequest

\* The code snippets suggestions are asked for.
Snippets == {"password = 'letmein123'", "x = 1"}

\* _fallback_suggestion(code_snippet)
FallbackSuggestion(snippet) ==
    IF snippet = "password = 'letmein123'"
    THEN "import os\npassword = os.getenv('DB_PASSWORD')"
    ELSE "# Consider refactoring this code for better security and performance"

\* What requests.post does: it raises, or gives a response with a status and
\* a body.  The bodies: {"choices": [{"text": "fixed"}]}, {"choices": [{}]},
\* {"choices": [{"text": null}]}, and one that is no JSON object of that
\* shape (response.json(), [0] or .get raises).
Bodies == {"text: fixed", "no text", "text: null", "malformed"}

Responses ==
    {[raised |-> TRUE, status |-> 0, body |-> "malformed"]}
      \cup [raised : {FALSE}, status : {200, 500}, body : Bodies]

\* response.json().get("choices", [{}])[0].get("text", ""): None is the null
\* of the body.
TextOf(body) ==
    CASE body = "text: fixed" -> "fixed"
      [] body = "no text"     -> ""
      [] body = "text: null"  -> None

NoCacheFile == [exists |-> FALSE, timestamp |-> 0, response |-> ""]

\* _load_from_cache(key) at time now; unreadable: open or json.load raises.
LoadFromCache(file, now, unreadable) ==
    IF ~file.exists THEN None
    ELSE IF unreadable THEN None
    ELSE IF now - file.timestamp < CacheTtl THEN file.response
    ELSE None

\* `if cached:`
Truthy(value) == value \notin {None, ""}

NoCall == [called |-> FALSE, snippet |-> "", at |-> 0, value |-> "",
           network |-> FALSE, slot |-> FALSE, cache_error |-> FALSE]

Returned(snippet, now, value, network, slot, cache_error) ==
    [called |-> TRUE, snippet |-> snippet, at |-> now, value |-> value,
     network |-> network, slot |-> slot, cache_error |-> cache_error]

CopilotInit ==
    /\ copilotConfig \in [enabled : BOOLEAN, requests_available : BOOLEAN,
                          auth_token : BOOLEAN]
    /\ cache = [s \in Snippets |-> NoCacheFile]
    /\ last = NoCall
    /\ nSuggestions = 0

CopilotIdle ==
    /\ copilotConfig = [enabled |-> FALSE, requests_available |-> FALSE,
                        auth_token |-> FALSE]
    /\ cache = [s \in Snippets |-> NoCacheFile]
    /\ last = NoCall
    /\ nSuggestions = 0

LimiterIdle ==
    /\ LimiterInit

\* get_suggestion(code_snippet) at time now.  response is what the HTTP
\* request meets, unreadable and unwritable are failures of the cache file.
\* All readings of time.time() within one call are taken as one instant.
GetSuggestion(snippet, now, response, unreadable, unwritable) ==
    /\ nSuggestions < MaxSuggestions
    /\ nSuggestions' = nSuggestions + 1
    /\ clock' = now
    /\ UNCHANGED copilotConfig
    /\ IF ~(copilotConfig.enabled /\ copilotConfig.requests_available
               /\ copilotConfig.auth_token)
       THEN /\ last' = Returned(snippet, now, FallbackSuggestion(snippet),
                                FALSE, FALSE, FALSE)
            /\ UNCHANGED <<cache, calls, admitted, lastAllowed, nRequests>>
       ELSE LET cached == LoadFromCache(cache[snippet], now, unreadable)
                cache_error == cache[snippet].exists /\ unreadable
            IN
            IF Truthy(cached)
            THEN /\ last' = Returned(snippet, now, cached, FALSE, FALSE, FALSE)
                 /\ UNCHANGED <<cache, calls, admitted, lastAllowed, nRequests>>
            ELSE /\ LimiterStep(now)
                 /\ IF ~AllowRequest(calls, now).allowed
                    THEN /\ last' = Returned(snippet, now, FallbackSuggestion(snippet),
                                             FALSE, FALSE, cache_error)
                         /\ UNCHANGED cache
                    ELSE IF response.raised \/ response.status # 200
                              \/ response.body = "malformed"
                    THEN /\ last' = Returned(snippet, now, FallbackSuggestion(snippet),
                                             TRUE, TRUE, cache_error)
                         /\ UNCHANGED cache
                    ELSE /\ last' = Returned(snippet, now, TextOf(response.body),
                                             TRUE, TRUE, cache_error)
                         /\ cache' = IF unwritable THEN cache
                                     ELSE [cache EXCEPT ![snippet] =
                                             [exists |-> TRUE, timestamp |-> now,
                                              response |-> TextOf(response.body)]]
    /\ UNCHANGED <<fixerVars, engineVars, ruleVars, cliVars, hookVars>>

CopilotNext ==
    \E snippet \in Snippets, d \in Deltas, response \in Responses,
       unreadable \in BOOLEAN, unwritable \in BOOLEAN :
        GetSuggestion(snippet, clock + d, response, unreadable, unwritable)

-----------------------------------------------------------------------------
(* GitHookManager *)

\* _generate_hook_script()
HookScript == "CodePolice hook"

\* The pre-commit hook a repository has before CodePolice is installed.
HookFiles == {None, "user hook"}

\* Path.rename(target) of a file with content src onto a path holding dst:
\* on POSIX the target is replaced, on Windows FileExistsError is raised
\* when the target exists.
Rename(src, dst, os) ==
    IF dst # None /\ os = "windows" THEN [raised |-> TRUE, target |-> dst]
    ELSE [raised |-> FALSE, target |-> src]

HookInit ==
    /\ platform \in {"posix", "windows"}
    /\ hook \in HookFiles
    /\ backup = None
    /\ hookAtStart = hook
    /\ hookOps = <<>>

HookIdle ==
    /\ platform = "posix"
    /\ hook = None
    /\ backup = None
    /\ hookAtStart = None
    /\ hookOps = <<>>

\* GitHookManager.install(): an exception ends in _handle_error, sys.exit(1).
Install ==
    /\ Len(hookOps) < MaxHookOps
    /\ LET r == IF hook # None THEN Rename(hook, backup, platform)
                ELSE [raised |-> FALSE, target |-> backup]
       IN  IF r.raised
           THEN /\ hookOps' = Append(hookOps, [op |-> "install", exited |-> TRUE])
                /\ UNCHANGED <<hook, backup>>
           ELSE /\ backup' = r.target
                /\ hook' = HookScript
                /\ hookOps' = Append(hookOps, [op |-> "install", exited |-> FALSE])
    /\ UNCHANGED <<platform, hookAtStart>>
    /\ UNCHANGED <<fixerVars, engineVars, ruleVars, cliVars, limiterVars, copilotVars>>

\* GitHookManager.uninstall(): the hook is unlinked, so the rename of the
\* backup meets no existing target.
Uninstall ==
    /\ Len(hookOps) < MaxHookOps
    /\ hook' = backup
    /\ backup' = None
    /\ hookOps' = Append(hookOps, [op |-> "uninstall", exited |-> FALSE])
    /\ UNCHANGED <<platform, hookAtStart>>
    /\ UNCHANGED <<fixerVars, engineVars, ruleVars, cliVars, limiterVars, copilotVars>>

HookNext == Install \/ Uninstall

-----------------------------------------------------------------------------
(* Specifications: one per component, the other components at rest *)

InitFixer == FixerInit /\ EngineIdle /\ RulesIdle /\ CliIdle /\ LimiterIdle /\ CopilotIdle /\ HookIdle

SpecFixer == InitFixer /\ [][FixerNext]_vars

InitEngine == EngineInit /\ FixerIdle /\ RulesIdle /\ CliIdle /\ LimiterIdle /\ CopilotIdle /\ HookIdle

SpecEngine == InitEngine /\ [][EngineNext]_vars

InitRules == RulesInit /\ FixerIdle /\ EngineIdle /\ CliIdle /\ LimiterIdle /\ CopilotIdle /\ HookIdle

SpecRules == InitRules /\ [][RulesNext]_vars

InitCli == CliInit /\ FixerIdle /\ EngineIdle /\ RulesIdle /\ LimiterIdle /\ CopilotIdle /\ HookIdle

SpecCli == InitCli /\ [][CliNext]_vars

InitLimiter ==
    LimiterInit /\ CopilotIdle /\ FixerIdle /\ EngineIdle /\ RulesIdle /\ CliIdle
      /\ HookIdle

SpecLimiter == InitLimiter /\ [][LimiterNext]_vars

InitCopilot ==
    CopilotInit /\ LimiterInit /\ FixerIdle /\ EngineIdle /\ RulesIdle /\ CliIdle
      /\ HookIdle

SpecCopilot == InitCopilot /\ [][CopilotNext]_vars

InitHook ==
    HookInit /\ LimiterIdle /\ CopilotIdle /\ FixerIdle /\ EngineIdle /\ RulesIdle
      /\ CliIdle

SpecHook == InitHook /\ [][HookNext]_vars

-----------------------------------------------------------------------------
(* Claims about CodeFixer *)

ModuleAtConstruction == Nodes

Applied(j) == j \in Range(changes)

Printed(kind, rule) ==
    \E k \in 1..Len(fixOut) : fixOut[k].kind = kind /\ fixOut[k].rule = rule

\* The i-th and the j-th finding both carry a directive, and the targets of
\* the two directives overlap.
OverlappingDirectives(i, j) ==
    /\ HasFixType(issues[i])
    /\ HasFixType(issues[j])
    /\ Overlap(issues[i].node, issues[j].node)

\* C1: of two findings whose directives target overlapping spans, the first
\* encountered is applied, and the later one is never applied and is
\* reported as skipped (conflict), whatever the directive kinds.
C1_ConflictPolicy ==
    fixPc = "done" =>
        \A i, j \in 1..Len(issues) :
            (i < j /\ OverlappingDirectives(i, j)
               /\ ~\E h \in 1..(i - 1) : OverlappingDirectives(h, i)) =>
                /\ Applied(i) \/ i \in raises
                /\ ~Applied(j)
                /\ Printed("Skipped (conflict)", issues[j].rule)

\* C3: when no finding has a 'fix_type' key, apply_fixes returns the module
\* it was constructed with and records no applied change.
C3_NoDirectiveNoChange ==
    (\A i \in 1..Len(issues) : ~HasFixType(issues[i])) =>
        /\ module = ModuleAtConstruction
        /\ changes = <<>>
        /\ fixPc # "raised"

C3_Witness ==
    /\ fixPc = "done"
    /\ Len(issues) >= 2
    /\ \A i \in 1..Len(issues) : ~HasFixType(issues[i])

\* The findings apply_fixes has been through.
Processed(j) == j \in 1..Len(issues) /\ j < fixI

C4_State ==
    /\ fixPc # "raised"
    /\ fixPc = "done" => fixI = Len(issues) + 1
    /\ \A j \in 1..Len(issues) :
          Processed(j) =>
             /\ j \in raises =>
                   ~Applied(j) /\ Printed("Failed to fix", issues[j].rule)
             /\ (j \notin raises /\ HasFixType(issues[j])
                   /\ GetFixMethod(issues[j].fix_type) # None) => Applied(j)

\* C4: a finding whose handler raises is skipped with a printed reason, the
\* module stays as it was before that finding, the finding is not added to
\* the applied set, every later finding is still processed, and apply_fixes
\* does not raise.
C4_FailureIsolated ==
    /\ []C4_State
    /\ [][(fixPc = "loop" /\ fixI \in raises) =>
             (module' = module /\ changes' = changes /\ fixPc' = "loop")]_vars

C4_Witness ==
    /\ fixPc = "done"
    /\ 1 \in raises
    /\ Applied(2)
    /\ Printed("Failed to fix", issues[1].rule)

\* C22: every directive kind of a shipped rule (remove, replace, rename,
\* refactor) resolves to a handler of CodeFixer: a finding with such a
\* directive that apply_fixes has been through was applied, or a line
\* about it was printed.
C22_DirectiveHandled ==
    \A j \in 1..Len(issues) :
        (Processed(j) /\ issues[j].fix_type \in ShippedFixTypes) =>
            /\ GetFixMethod(issues[j].fix_type) # None
            /\ \/ Applied(j)
               \/ \E k \in 1..Len(fixOut) : fixOut[k].rule = issues[j].rule

-----------------------------------------------------------------------------
(* Claims about RuleEngine and the rules *)

\* The k-th registered rule, run alone on the node, yields a finding.
FindsAlone(k, node) ==
    LET r == ApplyOneRule(node, RuleName(k), rules[k], <<>>)
    IN ~r.raised /\ Len(r.issues) = 1

\* The findings one apply_rules call added to RuleEngine.issues.
AddedBy(run) == SubSeq(run.issues, run.before + 1, Len(run.issues))

\* C5: when one rule raises during a run, the exception does not leave the
\* run, and every other registered rule is still run and its findings are
\* returned.
C5_FailSoft ==
    \A n \in 1..Len(runLog) :
        /\ ~runLog[n].raised
        /\ \A k \in 1..Len(rules) :
              FindsAlone(k, runLog[n].node) =>
                  \E i \in 1..Len(AddedBy(runLog[n])) :
                      AddedBy(runLog[n])[i].rule = RuleName(k)

\* C6: within one rule's output the findings are in document order; in
\* particular for NamingConventionRule.apply when a function definition
\* precedes a badly named variable.
C6_DocumentOrder ==
    \A i, j \in 1..Len(ruleOut.issues) :
        i < j => ruleOut.issues[i].line <= ruleOut.issues[j].line

\* C7: repeated runs on the same node with the same configuration give the
\* same findings: no run's result holds findings of earlier runs.
C7_RepeatedRunsAgree ==
    \A m, n \in 1..Len(runLog) :
        runLog[m].node = runLog[n].node => runLog[m].issues = runLog[n].issues

\* C16: a missing or malformed configuration never makes the Rule Engine
\* fail: the constructor does not raise, and no run raises.
C16_ConfigNeverFatal ==
    /\ enginePc # "failed"
    /\ \A n \in 1..Len(runLog) : ~runLog[n].raised

\* C8: a guard that raises on one candidate skips that candidate only: the
\* scan of HardcodedSecretRule goes on and every other matching node yields
\* its finding.
C8_GuardFailureSkipsOneCandidate ==
    ruleOut.rule = "hardcoded_secret" =>
        \A k \in 1..Len(tree) :
            SecretMatcher(tree[k]) = "match" =>
                \E i \in 1..Len(ruleOut.issues) : ruleOut.issues[i].node = k

\* The name an import statement binds is mentioned by a statement that is
\* not an import.
ReferencedOutsideImports(t, name) ==
    \E j \in 1..Len(t) : t[j].kind # "Import" /\ name \in NamesIn(t[j])

FindingsAt(k) ==
    {i \in 1..Len(ruleOut.issues) : ruleOut.issues[i].line = k}

\* C12: UnusedImportRule.apply yields an unused_import finding at the line of
\* an import exactly when the name it binds is never referenced outside
\* import statements; `import os` with no mention of os is found on line 1.
C12_UnusedImportFound ==
    ruleOut.rule = "unused_import" =>
        \A k \in 1..Len(tree) :
            tree[k].kind = "Import" =>
                (~ReferencedOutsideImports(tree, tree[k].name)
                    <=> \E i \in FindingsAt(k) :
                           ruleOut.issues[i].rule = "unused_import")

\* An assignment of a string literal to a name that contains a keyword.
SecretAssignment(stmt) ==
    /\ stmt.kind = "Assign" /\ stmt.value_kind = "SimpleString"
    /\ stmt.target_kind = "Name"
    /\ \E keyword \in SecretsKeywords : Contains(keyword, Lower(stmt.name))

\* Neither a string-literal assignment nor a name with a keyword in it.
NoSecretAssignment(stmt) ==
    \/ ~(stmt.kind = "Assign" /\ stmt.value_kind = "SimpleString")
    \/ ~\E keyword \in SecretsKeywords : Contains(keyword, Lower(stmt.name))

\* C13: HardcodedSecretRule.apply yields exactly one finding (rule
\* hardcoded_secret, severity error, fix_type replace) for every assignment
\* of a string literal to a name that contains password, secret, token or
\* key in any case, and no finding for any other statement.
C13_SecretFindings ==
    ruleOut.rule = "hardcoded_secret" =>
        \A k \in 1..Len(tree) :
            /\ SecretAssignment(tree[k]) =>
                  /\ Cardinality(FindingsAt(k)) = 1
                  /\ \A i \in FindingsAt(k) :
                        /\ ruleOut.issues[i].rule = "hardcoded_secret"
                        /\ ruleOut.issues[i].severity = "error"
                        /\ ruleOut.issues[i].fix_type = "replace"
            /\ NoSecretAssignment(tree[k]) => FindingsAt(k) = {}

-----------------------------------------------------------------------------
(* Claims about the commands *)

DiskAtStart == [f \in 1..Len(files) |-> SourceBytes(files[f])]

\* C2: the fix command without --apply never writes to a source file: in
\* every state of the run every file holds the text it held at the start.
C2_DryRunNeverWrites ==
    (command = "fix" /\ ~apply) => (disk = DiskAtStart /\ opened = {})

C2_Witness ==
    /\ command = "fix" /\ ~apply /\ cliPc = "done"
    /\ \E f \in checked : FilterOnly(RunRules(files[f]), only) # <<>>

Terminated == cliPc \in {"done", "raised"}

\* C9: a file that cannot be read or parsed is skipped alone: every other
\* file is still parsed and checked, and the check command reports the
\* findings of all of them.
C9_ParseFailureIsolated ==
    Terminated =>
        \A f \in 1..Len(files) :
            files[f].parses =>
                /\ f \in checked
                /\ command = "check" =>
                      /\ reported.called
                      /\ reported.issues =
                            Concat([g \in 1..Len(files) |-> RunRules(files[g])])

\* C10: at every point of a fix run each file holds its full original text
\* or its full fixed text, also when the pass fails for that file.
C10_NoPartialFile ==
    \A f \in 1..Len(files) :
        disk[f] \in {SourceBytes(files[f]), FixedBytes(files[f], only, linesep)}

\* The files the fix command has written completely.
Written == {f \in opened : cliI > f}

\* C11: after an apply pass each directive of a shipped rule is carried out
\* on the text written back: the line a remove directive targets is gone
\* (with the unused import of line 1 removed, the former line 2 is line 1),
\* and the line a replace directive targets is replaced by another.
C11_DirectivesCarriedOut ==
    \A f \in Written :
        LET iss == FilterOnly(RunRules(files[f]), only) IN
        \A k \in 1..Len(iss) :
            /\ iss[k].fix_type \in {"remove", "replace"} =>
                   SourceLines[iss[k].node] \notin Range(disk[f])
            /\ (iss[k].fix_type = "remove" /\ iss[k].node = 1) =>
                   disk[f][1] = SourceLines[2]

\* The findings the rules produced for the files checked so far.
Produced == Concat([g \in 1..Len(files) |-> IF g \in checked THEN RunRules(files[g]) ELSE <<>>])

\* C14: the check command ends with a non-zero status exactly when a
\* finding was produced, and then all findings were printed or saved before
\* the status is returned.
C14_ExitStatus ==
    (command = "check" /\ Terminated) =>
        /\ (ExitStatus # 0) <=> (Produced # <<>>)
        /\ Produced # <<>> =>
              /\ rendered.done
              /\ rendered.issues = [k \in 1..Len(Produced) |-> PopNode(Produced[k])]

\* C15: in every output format no finding that the renderer formats still
\* carries the node a rule put into it.
C15_NodeStripped ==
    reported.called =>
        \A k \in 1..Len(reported.issues) :
            ~HasNode(RendererInput(format, reported.issues)[k])

\* C18: a fix --apply pass in which no directive changes the tree writes
\* back the bytes the file had (the serialized tree equals the text parsed).
C18_RoundTrip ==
    \A f \in Written :
        LET text == ReadFile(SourceBytes(files[f]))
            iss == FilterOnly(RunRules(files[f]), only)
        IN  /\ Code(Parse(text)) = text
            /\ ApplyFixes(Parse(text), iss) = Parse(text) =>
                  disk[f] = SourceBytes(files[f])

-----------------------------------------------------------------------------
(* Claims about the suggestion service *)

\* The admitted calls whose time t has lo < t <= hi, and those with
\* lo <= t < hi: the two windows of length hi - lo that end or begin at a
\* call.
AdmittedAfter(lo, hi) ==
    {j \in 1..Len(admitted) : lo < admitted[j] /\ admitted[j] <= hi}

AdmittedFrom(lo, hi) ==
    {j \in 1..Len(admitted) : lo <= admitted[j] /\ admitted[j] < hi}

C19_Windows ==
    \A i \in 1..Len(admitted) :
        /\ Cardinality(AdmittedAfter(admitted[i] - Period, admitted[i])) <= RateLimit
        /\ Cardinality(AdmittedFrom(admitted[i], admitted[i] + Period)) <= RateLimit

C19_Step ==
    nRequests' = nRequests + 1 =>
        /\ lastAllowed' = "allowed" <=>
              Cardinality(AdmittedAfter(clock' - Period, clock')) < RateLimit
        /\ lastAllowed' = "allowed" => calls'[Len(calls')] = clock'
        /\ lastAllowed' = "denied" =>
              /\ Len(calls') <= Len(calls)
              /\ \A i \in 1..Len(calls') : calls'[i] \in Range(calls)

C17_AlwaysString ==
    last.called => last.value # None

\* The cache file of snippet s holds a response saved less than 24 hours
\* before now.
Unexpired(s, now) ==
    cache[s].exists /\ now - cache[s].timestamp < CacheTtl

C20_Step ==
    nSuggestions' = nSuggestions + 1 =>
        LET s == last'.snippet
            served == Unexpired(s, last'.at) /\ ~last'.cache_error
        IN  /\ served =>
                  /\ last'.value = cache[s].response
                  /\ ~last'.network
                  /\ ~last'.slot
            /\ last'.network =>
                  /\ copilotConfig.enabled /\ copilotConfig.auth_token
                  /\ ~served
                  /\ last'.slot

\* C20: a call for a snippet whose status-200 response was saved less than 24
\* hours before (and whose cache file is readable) returns the saved response
\* without a network request and without a limiter slot; a network request
\* is issued only when the service is enabled, a token is configured, no
\* unexpired cached response exists and the limiter admits the call.
C20_CacheServes == [][C20_Step]_vars

-----------------------------------------------------------------------------
(* Claims about the git hook *)

\* The calls so far are one or more installs followed by one uninstall.
InstallsThenUninstall ==
    /\ Len(hookOps) >= 2
    /\ hookOps[Len(hookOps)].op = "uninstall"
    /\ \A i \in 1..(Len(hookOps) - 1) : hookOps[i].op = "install"

\* C21: after one or more installs followed by one uninstall the hook path
\* holds the hook that was there before the first install (none if there
\* was none), and no backup file remains.
C21_UninstallRestores ==
    InstallsThenUninstall => (hook = hookAtStart /\ backup = None)

=============================================================================
